---- MODULE Spec2Model ----
(***************************************************************************)
(* The retry decorator of src/utils/retry.py.                              *)
(*                                                                         *)
(* retry(max_attempts, delay) wraps an operation func.  A coroutine        *)
(* function gets async_wrapper, any other callable gets sync_wrapper.      *)
(* Both run the same attempt loop; they differ in the sleep primitive.     *)
(* The model runs calls of a wrapped synchronous operation and of its      *)
(* asynchronous analog on one thread that also runs the event loop.        *)
(***************************************************************************)
EXTENDS Integers, Sequences, FiniteSets

\* Largest max_attempts the decorator is configured with.
MaxAttempts == 3
\* Largest delay (in clock ticks) the decorator is configured with.
MaxDelay == 1

\* The calls that are made: each is one activation of a wrapper.
Calls == {"c1", "c2"}

\* What one invocation of func can do: return, raise an exception that
\* derives from Exception, raise one that derives from BaseException only.
Outcomes == {"ok", "ValueError", "KeyboardInterrupt"}

VARIABLES
    max_attempts,    \* closure variable of retry()
    delay,           \* closure variable of retry()
    original,        \* per execution model: the function given to the decorator
    wrapped,         \* per execution model: the function the decorator returns
    cancelled,       \* per call: its task was cancelled during the wait
    mode,            \* per call: "idle", "sync" or "async" (which wrapper runs)
    func,            \* per call: outcome of the n-th invocation of func
    pc,              \* per call: position in the wrapper
    attempt,         \* per call: loop variable of the for statement
    last_exception,  \* per call: local variable last_exception
    invocations,     \* per call: how many times func was invoked
    inflight,        \* per call: attempts whose invocation has not completed
    elapsed,         \* per call: ticks spent in the current sleep
    events,          \* per call: invocations, log records and waits, in order
    outcome,         \* per call: what the caller observes
    thread           \* the call that occupies the thread, or "free"

vars == <<max_attempts, delay, original, wrapped, cancelled, mode, func, pc, attempt, last_exception,
          invocations, inflight, elapsed, events, outcome, thread>>

\* Python's None, and an exception object: class, the invocation of func
\* that raised it (its message), and where it was raised.
None == [cls |-> "None", n |-> 0, origin |-> "none"]
Raised(cls, n) == [cls |-> cls, n |-> n, origin |-> "func"]
AssertionError == [cls |-> "AssertionError", n |-> 0, origin |-> "wrapper"]

\* The value the n-th invocation returns.
Value(n) == [cls |-> "value", n |-> n, origin |-> "func"]

\* What the caller observes.
Pending == [kind |-> "pending", what |-> None]
Returned(v) == [kind |-> "return", what |-> v]
Propagated(e) == [kind |-> "raise", what |-> e]

\* The classes that derive from Exception.
ExceptionClasses == {"ValueError"}

\* The records appended to a call's event sequence.
InvokeEvent(a) == [ev |-> "invoke", attempt |-> a, exc |-> None, dur |-> 0]
RetryLog(a, e) == [ev |-> "Retrying", attempt |-> a, exc |-> e, dur |-> delay]
ExhaustedLog(a, e) == [ev |-> "No more retries", attempt |-> a, exc |-> e, dur |-> 0]
WaitEvent(a, d) == [ev |-> "wait", attempt |-> a, exc |-> None, dur |-> d]

\* The thread is available to call c.
CanRun(c) == thread = "free" \/ thread = c

\* The two execution models, and the functions that are decorated: a name,
\* a docstring ("None" when there is none) and whether
\* asyncio.iscoroutinefunction holds of it.
Kinds == {"sync", "async"}
Names == {"flaky_api_call", "my_special_function"}
Docs == {"None", "This is my docstring."}
Function(name, doc, kind) == [name |-> name, doc |-> doc, kind |-> kind]

\* `def sync_wrapper` and `async def async_wrapper` as the def statements
\* make them: their own names, no docstring.
SyncWrapperDef == Function("sync_wrapper", "None", "sync")
AsyncWrapperDef == Function("async_wrapper", "None", "async")

\* Variant: the wrapper defined without @functools.wraps(func).
SyncWrapsNothing(w, f) == w

\* `@functools.wraps(func)` on sync_wrapper: the wrapper takes the name and
\* the docstring of func and stays the function it is.
SyncWraps(w, f) == [w EXCEPT !.name = f.name, !.doc = f.doc]

\* `@functools.wraps(func)` on async_wrapper.
AsyncWraps(w, f) == [w EXCEPT !.name = f.name, !.doc = f.doc]

\* decorator(func): the wrapper chosen by asyncio.iscoroutinefunction(func).
Decorator(f) ==
    IF f.kind = "async" THEN AsyncWraps(AsyncWrapperDef, f)
    ELSE SyncWraps(SyncWrapperDef, f)

\* The state of the calls before any is made.
NoCallYet ==
    /\ cancelled = [c \in Calls |-> FALSE]
    /\ mode = [c \in Calls |-> "idle"]
    /\ func = [c \in Calls |-> <<>>]
    /\ pc = [c \in Calls |-> "idle"]
    /\ attempt = [c \in Calls |-> 0]
    /\ last_exception = [c \in Calls |-> None]
    /\ invocations = [c \in Calls |-> 0]
    /\ inflight = [c \in Calls |-> {}]
    /\ elapsed = [c \in Calls |-> 0]
    /\ events = [c \in Calls |-> <<>>]
    /\ outcome = [c \in Calls |-> Pending]
    /\ thread = "free"

\* retry(max_attempts, delay) applied to one synchronous operation and to
\* its asynchronous analog, for every configuration.
Init ==
    /\ max_attempts \in -1..MaxAttempts
    /\ delay \in 0..MaxDelay
    /\ original = [k \in Kinds |-> Function("flaky_api_call", "None", k)]
    /\ wrapped = [k \in Kinds |-> Decorator(original[k])]
    /\ NoCallYet

\* The defaults of retry(): max_attempts = 3, delay = 1.0 (one tick).
DefaultMaxAttempts == 3
DefaultDelay == 1

\* @retry() applied to every synchronous function and every asynchronous
\* function.
InitDecorator ==
    /\ max_attempts = DefaultMaxAttempts
    /\ delay = DefaultDelay
    /\ original \in [Kinds -> {Function(n, d, k) : n \in Names, d \in Docs, k \in Kinds}]
    /\ \A k \in Kinds : original[k].kind = k
    /\ wrapped = [k \in Kinds |-> Decorator(original[k])]
    /\ NoCallYet

\* The behaviours of func that a call can meet: one outcome per attempt the
\* configuration allows.  A call ends at the first invocation that returns
\* and a later call starts its own count, so what func would do after its
\* first success is never observed: one pattern stands for all that agree
\* up to there.
Patterns ==
    {p \in [1..(IF max_attempts > 0 THEN max_attempts ELSE 0) -> Outcomes] :
        \A i \in DOMAIN p : \A j \in DOMAIN p :
            (i < j /\ p[i] = "ok") => p[j] = "ok"}

\* Time passes: every sleep that is not over yet gets one tick older.
Tick ==
    /\ \E c \in Calls : pc[c] = "sleep" /\ elapsed[c] < delay
    /\ elapsed' = [c \in Calls |->
                     IF pc[c] = "sleep" /\ elapsed[c] < delay
                     THEN elapsed[c] + 1 ELSE elapsed[c]]
    /\ UNCHANGED <<max_attempts, delay, original, wrapped, cancelled, mode, func, pc, attempt, last_exception,
                   invocations, inflight, events, outcome, thread>>

(***************************************************************************)
(* sync_wrapper                                                            *)
(***************************************************************************)

\* Variant: the loop written `range(1, max_attempts)`.
SyncRangeExclusive(a) == a < max_attempts - 1

\* `for attempt in range(1, max_attempts + 1)`: there is a value after a.
SyncRangeHasNext(a) == a < max_attempts

\* Variant: the test written `attempt <= max_attempts`.
SyncRetriesAfterLast(a) == a <= max_attempts

\* `except Exception as e`: the handler catches class cls.
SyncCatches(cls) == cls \in ExceptionClasses

\* Variant: the test written `attempt < max_attempts - 1`.
SyncRetriesStopsEarly(a) == a < max_attempts - 1

\* `if attempt < max_attempts`: the failed attempt a is followed by a retry.
SyncRetries(a) == a < max_attempts

\* time.sleep(delay) returns for the call that slept t ticks.
SyncSleepOver(t) == t >= delay

\* Variant: only the first failure is kept.
SyncKeepsFirst(old, e) == IF old = None THEN e ELSE old

\* `last_exception = e`: the value kept when e is caught and old was kept.
SyncKeeps(old, e) == e

\* Variant: the loop followed by `raise last_exception` alone, which raises
\* TypeError when last_exception is None.
SyncRaiseWithoutAssert(e) ==
    IF e = None THEN [cls |-> "TypeError", n |-> 0, origin |-> "wrapper"] ELSE e

\* The exception raised after the loop: `assert last_exception is not None`
\* and `raise last_exception`.
SyncRaiseAfterLoop(e) == IF e = None THEN AssertionError ELSE e

\* A caller calls the wrapped synchronous operation: the wrapper starts on
\* the caller's thread and keeps it until it returns or raises.
SyncCall(c) ==
    /\ pc[c] = "idle"
    /\ thread = "free"
    /\ wrapped["sync"].kind = "sync"
    /\ mode' = [mode EXCEPT ![c] = "sync"]
    /\ \E p \in Patterns : func' = [func EXCEPT ![c] = p]
    /\ last_exception' = [last_exception EXCEPT ![c] = None]
    /\ pc' = [pc EXCEPT ![c] = "for"]
    /\ thread' = c
    /\ UNCHANGED <<max_attempts, delay, original, wrapped, cancelled, attempt, invocations, inflight,
                   elapsed, events, outcome>>

\* The for statement: take the next attempt number and invoke func, or
\* leave the loop and raise.
SyncFor(c) ==
    /\ mode[c] = "sync"
    /\ pc[c] = "for"
    /\ CanRun(c)
    /\ IF SyncRangeHasNext(attempt[c])
       THEN /\ attempt' = [attempt EXCEPT ![c] = @ + 1]
            /\ invocations' = [invocations EXCEPT ![c] = @ + 1]
            /\ inflight' = [inflight EXCEPT ![c] = @ \cup {attempt[c] + 1}]
            /\ events' = [events EXCEPT ![c] = Append(@, InvokeEvent(attempt[c] + 1))]
            /\ pc' = [pc EXCEPT ![c] = "try"]
            /\ UNCHANGED <<outcome, thread>>
       ELSE /\ outcome' = [outcome EXCEPT
                             ![c] = Propagated(SyncRaiseAfterLoop(last_exception[c]))]
            /\ pc' = [pc EXCEPT ![c] = "done"]
            /\ thread' = "free"
            /\ UNCHANGED <<attempt, invocations, inflight, events>>
    /\ UNCHANGED <<max_attempts, delay, original, wrapped, cancelled, mode, func, last_exception, elapsed>>

\* The invocation of func completes: `return func(...)` or the handler.
SyncFuncDone(c) ==
    /\ mode[c] = "sync"
    /\ pc[c] = "try"
    /\ CanRun(c)
    /\ inflight' = [inflight EXCEPT ![c] = @ \ {attempt[c]}]
    /\ LET r == func[c][invocations[c]]
           e == Raised(r, invocations[c])
       IN  IF r = "ok"
           THEN /\ outcome' = [outcome EXCEPT ![c] = Returned(Value(invocations[c]))]
                /\ pc' = [pc EXCEPT ![c] = "done"]
                /\ thread' = "free"
                /\ UNCHANGED <<last_exception, events, elapsed>>
           ELSE IF SyncCatches(r)
           THEN /\ last_exception' = [last_exception EXCEPT ![c] = SyncKeeps(@, e)]
                /\ IF SyncRetries(attempt[c])
                   THEN /\ events' = [events EXCEPT
                                        ![c] = Append(@, RetryLog(attempt[c], e))]
                        /\ pc' = [pc EXCEPT ![c] = "sleep"]
                        /\ elapsed' = [elapsed EXCEPT ![c] = 0]
                   ELSE /\ events' = [events EXCEPT
                                        ![c] = Append(@, ExhaustedLog(attempt[c], e))]
                        /\ pc' = [pc EXCEPT ![c] = "for"]
                        /\ UNCHANGED elapsed
                /\ UNCHANGED <<outcome, thread>>
           ELSE /\ outcome' = [outcome EXCEPT ![c] = Propagated(e)]
                /\ pc' = [pc EXCEPT ![c] = "done"]
                /\ thread' = "free"
                /\ UNCHANGED <<last_exception, events, elapsed>>
    /\ UNCHANGED <<max_attempts, delay, original, wrapped, cancelled, mode, func, attempt, invocations>>

\* time.sleep(delay) returns: the thread was blocked for the whole wait.
SyncSleepDone(c) ==
    /\ mode[c] = "sync"
    /\ pc[c] = "sleep"
    /\ CanRun(c)
    /\ SyncSleepOver(elapsed[c])
    /\ events' = [events EXCEPT ![c] = Append(@, WaitEvent(attempt[c], elapsed[c]))]
    /\ pc' = [pc EXCEPT ![c] = "for"]
    /\ UNCHANGED <<max_attempts, delay, original, wrapped, cancelled, mode, func, attempt, last_exception,
                   invocations, inflight, elapsed, outcome, thread>>

\* Variant: the attempts are counted in the closure, across the calls.
AsyncRangeSharedBudget(a) == \A c \in Calls : invocations[c] < max_attempts

(***************************************************************************)
(* async_wrapper                                                           *)
(***************************************************************************)

\* Variant: the loop written `range(1, max_attempts)`.
AsyncRangeExclusive(a) == a < max_attempts - 1

\* `for attempt in range(1, max_attempts + 1)`: there is a value after a.
AsyncRangeHasNext(a) == a < max_attempts

\* Variant: the handler written `except BaseException`.
AsyncCatchesBaseException(cls) == cls # "ok"

\* `except Exception as e`: the handler catches class cls.
AsyncCatches(cls) == cls \in ExceptionClasses

\* Variant: the test written `attempt <= max_attempts`.
AsyncRetriesAfterLast(a) == a <= max_attempts

\* `if attempt < max_attempts`: the failed attempt a is followed by a retry.
AsyncRetries(a) == a < max_attempts

\* Variant: asyncio.sleep(delay) called without await.
AsyncSleepNotAwaited(t) == TRUE

\* asyncio.sleep(delay) is over for the task that slept t ticks.
AsyncSleepOver(t) == t >= delay

\* Variant: the wait written `time.sleep(delay)`.
AsyncSleepBlocks(c) == c

\* `await asyncio.sleep(delay)`: who has the thread while task c waits.
AsyncSleepThread(c) == "free"

\* Variant: the handler does not record the failure.
AsyncKeepsNothing(old, e) == old

\* `last_exception = e`: the value kept when e is caught and old was kept.
AsyncKeeps(old, e) == e

\* The exception raised after the loop: `assert last_exception is not None`
\* and `raise last_exception`.
AsyncRaiseAfterLoop(e) == IF e = None THEN AssertionError ELSE e

\* A task awaits the wrapped asynchronous operation: the wrapper runs in
\* that task and gives the thread back at every await.
AsyncCall(c) ==
    /\ pc[c] = "idle"
    /\ thread = "free"
    /\ wrapped["async"].kind = "async"
    /\ mode' = [mode EXCEPT ![c] = "async"]
    /\ \E p \in Patterns : func' = [func EXCEPT ![c] = p]
    /\ last_exception' = [last_exception EXCEPT ![c] = None]
    /\ pc' = [pc EXCEPT ![c] = "for"]
    /\ UNCHANGED <<max_attempts, delay, original, wrapped, cancelled, attempt, invocations, inflight,
                   elapsed, events, outcome, thread>>

\* The for statement: take the next attempt number and await func, or
\* leave the loop and raise.
AsyncFor(c) ==
    /\ mode[c] = "async"
    /\ pc[c] = "for"
    /\ CanRun(c)
    /\ IF AsyncRangeHasNext(attempt[c])
       THEN /\ attempt' = [attempt EXCEPT ![c] = @ + 1]
            /\ invocations' = [invocations EXCEPT ![c] = @ + 1]
            /\ inflight' = [inflight EXCEPT ![c] = @ \cup {attempt[c] + 1}]
            /\ events' = [events EXCEPT ![c] = Append(@, InvokeEvent(attempt[c] + 1))]
            /\ pc' = [pc EXCEPT ![c] = "try"]
            /\ UNCHANGED outcome
       ELSE /\ outcome' = [outcome EXCEPT
                             ![c] = Propagated(AsyncRaiseAfterLoop(last_exception[c]))]
            /\ pc' = [pc EXCEPT ![c] = "done"]
            /\ UNCHANGED <<attempt, invocations, inflight, events>>
    /\ UNCHANGED <<max_attempts, delay, original, wrapped, cancelled, mode, func, last_exception, elapsed, thread>>

\* The awaited coroutine completes: `return await func(...)` or the handler.
AsyncFuncDone(c) ==
    /\ mode[c] = "async"
    /\ pc[c] = "try"
    /\ CanRun(c)
    /\ inflight' = [inflight EXCEPT ![c] = @ \ {attempt[c]}]
    /\ LET r == func[c][invocations[c]]
           e == Raised(r, invocations[c])
       IN  IF r = "ok"
           THEN /\ outcome' = [outcome EXCEPT ![c] = Returned(Value(invocations[c]))]
                /\ pc' = [pc EXCEPT ![c] = "done"]
                /\ UNCHANGED <<last_exception, events, elapsed, thread>>
           ELSE IF AsyncCatches(r)
           THEN /\ last_exception' = [last_exception EXCEPT ![c] = AsyncKeeps(@, e)]
                /\ IF AsyncRetries(attempt[c])
                   THEN /\ events' = [events EXCEPT
                                        ![c] = Append(@, RetryLog(attempt[c], e))]
                        /\ pc' = [pc EXCEPT ![c] = "sleep"]
                        /\ elapsed' = [elapsed EXCEPT ![c] = 0]
                        /\ thread' = AsyncSleepThread(c)
                   ELSE /\ events' = [events EXCEPT
                                        ![c] = Append(@, ExhaustedLog(attempt[c], e))]
                        /\ pc' = [pc EXCEPT ![c] = "for"]
                        /\ UNCHANGED <<elapsed, thread>>
                /\ UNCHANGED outcome
           ELSE /\ outcome' = [outcome EXCEPT ![c] = Propagated(e)]
                /\ pc' = [pc EXCEPT ![c] = "done"]
                /\ UNCHANGED <<last_exception, events, elapsed, thread>>
    /\ UNCHANGED <<max_attempts, delay, original, wrapped, cancelled, mode, func, attempt, invocations>>

\* The event loop resumes the task after asyncio.sleep(delay).
AsyncSleepDone(c) ==
    /\ mode[c] = "async"
    /\ pc[c] = "sleep"
    /\ CanRun(c)
    /\ AsyncSleepOver(elapsed[c])
    /\ events' = [events EXCEPT ![c] = Append(@, WaitEvent(attempt[c], elapsed[c]))]
    /\ pc' = [pc EXCEPT ![c] = "for"]
    /\ thread' = "free"
    /\ UNCHANGED <<max_attempts, delay, original, wrapped, cancelled, mode, func, attempt, last_exception,
                   invocations, inflight, elapsed, outcome>>

\* The exception asyncio raises in a task that is cancelled.
CancelledError == [cls |-> "CancelledError", n |-> 0, origin |-> "task"]

\* Variant: the sleep written inside a `try: ... except BaseException: pass`.
AsyncSleepGuarded(cls) == TRUE

\* `await asyncio.sleep(delay)` stands in the body of the except clause,
\* outside the try statement: nothing in the wrapper catches what it raises.
AsyncSleepCatches(cls) == FALSE

\* The task of call c is cancelled while it is suspended in
\* `await asyncio.sleep(delay)`: the event loop resumes it by raising
\* CancelledError at the await.
AsyncCancel(c) ==
    /\ mode[c] = "async"
    /\ pc[c] = "sleep"
    /\ CanRun(c)
    /\ ~cancelled[c]
    /\ cancelled' = [cancelled EXCEPT ![c] = TRUE]
    /\ IF AsyncSleepCatches(CancelledError.cls)
       THEN /\ events' = [events EXCEPT
                            ![c] = Append(@, WaitEvent(attempt[c], elapsed[c]))]
            /\ pc' = [pc EXCEPT ![c] = "for"]
            /\ UNCHANGED outcome
       ELSE /\ outcome' = [outcome EXCEPT ![c] = Propagated(CancelledError)]
            /\ pc' = [pc EXCEPT ![c] = "done"]
            /\ UNCHANGED events
    /\ thread' = "free"
    /\ UNCHANGED <<max_attempts, delay, original, wrapped, mode, func, attempt, last_exception,
                   invocations, inflight, elapsed>>

Next ==
    \/ Tick
    \/ \E c \in Calls : SyncCall(c)
    \/ \E c \in Calls : SyncFor(c)
    \/ \E c \in Calls : SyncFuncDone(c)
    \/ \E c \in Calls : SyncSleepDone(c)
    \/ \E c \in Calls : AsyncCall(c)
    \/ \E c \in Calls : AsyncFor(c)
    \/ \E c \in Calls : AsyncFuncDone(c)
    \/ \E c \in Calls : AsyncSleepDone(c)

Spec == Init /\ [][Next]_vars

\* The program when the tasks of async calls may be cancelled while they
\* wait.
NextCancel ==
    \/ Next
    \/ \E c \in Calls : AsyncCancel(c)

SpecCancel == Init /\ [][NextCancel]_vars

\* A step of a call that has begun: the interpreter runs the wrapper's next
\* statement, the invocation of func ends, or the sleep that is over
\* returns.
RunOf(c) ==
    \/ SyncFor(c) \/ SyncFuncDone(c) \/ SyncSleepDone(c)
    \/ AsyncFor(c) \/ AsyncFuncDone(c) \/ AsyncSleepDone(c)

\* The program when every invocation of func and every wait terminates:
\* time passes while a call sleeps, and a call that can run does run.
FairSpec ==
    /\ Init /\ [][Next]_vars
    /\ WF_vars(Tick)
    /\ \A c \in Calls : WF_vars(RunOf(c))

\* The calls of the functions that @retry() returns.
SpecDecorator == InitDecorator /\ [][Next]_vars

(***************************************************************************)
(* Properties                                                              *)
(***************************************************************************)

Done(c) == pc[c] = "done"
Failed(c, n) == func[c][n] # "ok"
FailedAsException(c, n) == func[c][n] \in ExceptionClasses
Attempts == 1..max_attempts

\* C1 as stated: bounded retries.  With max_attempts >= 1, a call whose
\* operation fails on every invocation never invokes it more than
\* max_attempts times and ends, after exactly max_attempts invocations, by
\* raising to the caller.
C1_AsStated ==
    \A c \in Calls :
        (max_attempts >= 1 /\ mode[c] # "idle" /\ \A n \in Attempts : Failed(c, n))
        => /\ invocations[c] <= max_attempts
           /\ Done(c) => /\ invocations[c] = max_attempts
                         /\ outcome[c].kind = "raise"

\* C1 amended: the same, for an operation whose failures on the invocations
\* before the last permitted one derive from Exception.
C1_BoundedRetries ==
    \A c \in Calls :
        (/\ max_attempts >= 1
         /\ mode[c] # "idle"
         /\ \A n \in Attempts : Failed(c, n)
         /\ \A n \in Attempts : n < max_attempts => FailedAsException(c, n))
        => /\ invocations[c] <= max_attempts
           /\ Done(c) => /\ invocations[c] = max_attempts
                         /\ outcome[c].kind = "raise"

C1_Witness ==
    \E c \in Calls : \E d \in Calls :
        /\ mode[c] = "sync" /\ mode[d] = "async"
        /\ max_attempts = 3
        /\ Done(c) /\ Done(d)
        /\ \A n \in Attempts : FailedAsException(c, n) /\ FailedAsException(d, n)
        /\ invocations[c] = 3 /\ invocations[d] = 3
        /\ outcome[c].kind = "raise" /\ outcome[d].kind = "raise"

\* C2 as stated: eventual success within budget.  With max_attempts >= 1
\* and k < max_attempts, a call whose operation fails on its first k
\* invocations and succeeds on invocation k+1 never invokes it more than k+1
\* times and ends, after exactly k+1 invocations, by returning the result of
\* invocation k+1.
C2_AsStated ==
    \A c \in Calls : \A k \in 0..(max_attempts - 1) :
        (/\ mode[c] # "idle"
         /\ \A n \in 1..k : Failed(c, n)
         /\ func[c][k + 1] = "ok")
        => /\ invocations[c] <= k + 1
           /\ Done(c) => /\ invocations[c] = k + 1
                         /\ outcome[c] = Returned(Value(k + 1))

\* C2 amended: the same, for an operation whose first k failures derive
\* from Exception.
C2_EventualSuccess ==
    \A c \in Calls : \A k \in 0..(max_attempts - 1) :
        (/\ mode[c] # "idle"
         /\ \A n \in 1..k : FailedAsException(c, n)
         /\ func[c][k + 1] = "ok")
        => /\ invocations[c] <= k + 1
           /\ Done(c) => /\ invocations[c] = k + 1
                         /\ outcome[c] = Returned(Value(k + 1))

C2_Witness ==
    \E c \in Calls :
        /\ max_attempts = 3
        /\ Done(c)
        /\ FailedAsException(c, 1) /\ func[c][2] = "ok"
        /\ invocations[c] = 2
        /\ outcome[c] = Returned(Value(2))

\* C3: failure identity preserved.  When max_attempts >= 1 attempts were
\* made and all of them failed, the caller observes exactly the exception
\* object the last attempt raised: its class, its message, raised by func.
C3_FailureIdentity ==
    \A c \in Calls :
        (/\ max_attempts >= 1
         /\ Done(c)
         /\ invocations[c] = max_attempts
         /\ \A n \in Attempts : Failed(c, n))
        => outcome[c] = Propagated(Raised(func[c][max_attempts], max_attempts))

C3_Witness ==
    \E c \in Calls :
        /\ max_attempts = 3
        /\ Done(c)
        /\ \A n \in Attempts : FailedAsException(c, n)
        /\ outcome[c] = Propagated(Raised("ValueError", 3))

\* Attempt n of call c was made and its invocation has completed.
Completed(c, n) == n \in 1..invocations[c] /\ n \notin inflight[c]

\* The place of the invocation of attempt n among the events of call c.
InvokeAt(c, n) == CHOOSE i \in DOMAIN events[c] : events[c][i] = InvokeEvent(n)

\* The failure of the completed attempt n stayed inside call c: it was
\* logged as a retry and recorded, the call went on to wait, and what
\* follows the wait is the invocation of attempt n + 1.
AbsorbedThenRetried(c, n) ==
    LET i == InvokeAt(c, n)
        e == Raised(func[c][n], n)
    IN  /\ Len(events[c]) > i
        /\ events[c][i + 1] = RetryLog(n, e)
        /\ invocations[c] = n =>
              /\ last_exception[c] = e
              /\ outcome[c] = Pending
              /\ \/ pc[c] = "sleep" /\ Len(events[c]) = i + 1
                 \/ /\ pc[c] = "for"
                    /\ Len(events[c]) = i + 2
                    /\ events[c][i + 2] = WaitEvent(n, delay)
        /\ invocations[c] > n =>
              /\ events[c][i + 2] = WaitEvent(n, delay)
              /\ events[c][i + 3] = InvokeEvent(n + 1)

\* C4 as stated: failure absorption.  With max_attempts >= 1, the failure
\* of a completed attempt n < max_attempts is not propagated but recorded
\* and followed by a wait and attempt n + 1; a call raises to its caller
\* only after max_attempts invocations of which the last failed.
C4_AsStated ==
    \A c \in Calls :
        (max_attempts >= 1 /\ mode[c] # "idle")
        => /\ \A n \in Attempts :
                (n < max_attempts /\ Completed(c, n) /\ Failed(c, n))
                => AbsorbedThenRetried(c, n)
           /\ outcome[c].kind = "raise"
                => invocations[c] = max_attempts /\ Failed(c, max_attempts)

\* C4 amended: the failure of a completed attempt n < max_attempts that
\* derives from Exception is not propagated but recorded and followed by a
\* wait and attempt n + 1; a call raises to its caller only the failure of
\* the last invocation it made, and that invocation is number max_attempts
\* unless the failure does not derive from Exception.
C4_FailureAbsorption ==
    \A c \in Calls :
        (max_attempts >= 1 /\ mode[c] # "idle")
        => /\ \A n \in Attempts :
                (n < max_attempts /\ Completed(c, n) /\ FailedAsException(c, n))
                => AbsorbedThenRetried(c, n)
           /\ outcome[c].kind = "raise"
                => /\ Failed(c, invocations[c])
                   /\ outcome[c].what = Raised(func[c][invocations[c]], invocations[c])
                   /\ \/ invocations[c] = max_attempts
                      \/ ~FailedAsException(c, invocations[c])

C4_Witness ==
    \E c \in Calls :
        /\ max_attempts = 3
        /\ Done(c)
        /\ FailedAsException(c, 1) /\ FailedAsException(c, 2)
        /\ AbsorbedThenRetried(c, 1) /\ AbsorbedThenRetried(c, 2)
        /\ outcome[c].kind = "raise"
        /\ invocations[c] = 3

\* One step of call c ends the invocation of attempt a.
EndsAttempt(c) == pc[c] = "try" /\ pc'[c] # "try"

\* What the wrapper does between a failed attempt and the next one: the
\* wait ends at the loop head with the attempt number unchanged, and the
\* loop head, while attempts remain, invokes func for the next number.
WaitThenNextAttempt(c) ==
    /\ (pc[c] = "sleep" /\ pc'[c] # "sleep")
         => pc'[c] = "for" /\ attempt'[c] = attempt[c] /\ elapsed[c] >= delay
    /\ (pc[c] = "for" /\ pc'[c] # "for" /\ attempt[c] < max_attempts)
         => /\ pc'[c] = "try"
            /\ attempt'[c] = attempt[c] + 1
            /\ invocations'[c] = invocations[c] + 1

\* C5 as stated: unconditional retry.  Whenever an attempt numbered less
\* than max_attempts fails, whatever the class of the failure, the call
\* does not end: it goes to wait, and after the wait it makes the next
\* attempt.
C5_AsStated ==
    [][\A c \in Calls :
        /\ (EndsAttempt(c) /\ attempt[c] < max_attempts /\ Failed(c, attempt[c]))
             => pc'[c] = "sleep" /\ outcome'[c] = Pending
        /\ WaitThenNextAttempt(c)]_vars

\* C5 amended: whenever an attempt numbered less than max_attempts fails
\* with a failure that derives from Exception, whatever its class, the call
\* goes to wait and after the wait makes the next attempt; a failure that
\* does not derive from Exception ends the call at once and is propagated.
C5_RetryOnException ==
    [][\A c \in Calls :
        /\ (EndsAttempt(c) /\ attempt[c] < max_attempts
              /\ FailedAsException(c, attempt[c]))
             => pc'[c] = "sleep" /\ outcome'[c] = Pending
        /\ (EndsAttempt(c) /\ Failed(c, attempt[c])
              /\ ~FailedAsException(c, attempt[c]))
             => /\ pc'[c] = "done"
                /\ outcome'[c] = Propagated(Raised(func[c][attempt[c]], attempt[c]))
        /\ WaitThenNextAttempt(c)]_vars

C5_Witness ==
    \E c \in Calls : \E d \in Calls :
        /\ max_attempts >= 2
        /\ pc[c] = "try" /\ attempt[c] = 2 /\ FailedAsException(c, 1)
        /\ Done(d) /\ func[d][1] = "KeyboardInterrupt"
        /\ outcome[d] = Propagated(Raised("KeyboardInterrupt", 1))

\* C6: success short-circuits.  With max_attempts >= 1, a call whose
\* operation succeeds on its first invocation invokes it once, never waits,
\* emits no log record, and returns the result of that invocation.
C6_SuccessShortCircuits ==
    \A c \in Calls :
        (max_attempts >= 1 /\ mode[c] # "idle" /\ func[c][1] = "ok")
        => /\ invocations[c] <= 1
           /\ pc[c] # "sleep"
           /\ events[c] \in {<<>>, <<InvokeEvent(1)>>}
           /\ Done(c) => /\ invocations[c] = 1
                         /\ events[c] = <<InvokeEvent(1)>>
                         /\ outcome[c] = Returned(Value(1))

C6_Witness ==
    \E c \in Calls : \E d \in Calls :
        /\ max_attempts = 3
        /\ mode[c] = "sync" /\ mode[d] = "async"
        /\ Done(c) /\ Done(d)
        /\ func[c][1] = "ok" /\ func[d][1] = "ok"
        /\ outcome[c] = Returned(Value(1)) /\ outcome[d] = Returned(Value(1))

\* The places of the waits among the events of call c, and those that
\* follow attempt n.
Waits(c) == {i \in DOMAIN events[c] : events[c][i].ev = "wait"}
WaitsAfter(c, n) == {i \in Waits(c) : events[c][i].attempt = n}

\* The time call c spent waiting: the sum of the lengths of its waits.
RECURSIVE SumOfWaits(_)
SumOfWaits(es) ==
    IF es = <<>> THEN 0
    ELSE (IF Head(es).ev = "wait" THEN Head(es).dur ELSE 0) + SumOfWaits(Tail(es))

\* The attempts of call c that failed, among those before the last one made.
FailedBeforeLast(c) == {n \in 1..(invocations[c] - 1) : Failed(c, n)}

\* Every wait of call c has length delay and comes right after the retry
\* log record of a failed attempt n < max_attempts, at most once per
\* attempt: there is no wait after a success nor after attempt max_attempts.
WaitsOnlyAfterFailedNonFinal(c) ==
    /\ \A i \in Waits(c) :
          LET n == events[c][i].attempt
          IN  /\ n < max_attempts
              /\ Failed(c, n)
              /\ events[c][i].dur = delay
              /\ i >= 3
              /\ events[c][i - 1].ev = "Retrying" /\ events[c][i - 1].attempt = n
              /\ events[c][i - 2] = InvokeEvent(n)
    /\ \A n \in Attempts : Cardinality(WaitsAfter(c, n)) <= 1
    /\ pc[c] = "sleep" => attempt[c] < max_attempts /\ Failed(c, attempt[c])

\* The call is past the handler of the completed attempt n.
PastHandler(c, n) == Completed(c, n) /\ ~(pc[c] = "sleep" /\ attempt[c] = n)

\* When call c is over, its waits are as many as its failed attempts before
\* the last attempt it made, and they add up to that many times delay.
WaitsCounted(c) ==
    Done(c) => /\ Cardinality(Waits(c)) = Cardinality(FailedBeforeLast(c))
               /\ SumOfWaits(events[c]) = Cardinality(FailedBeforeLast(c)) * delay

C8_SequentialWithDelay ==
    \A c \in Calls :
        (max_attempts >= 1 /\ mode[c] # "idle")
        => /\ Cardinality(inflight[c]) <= 1
           /\ inflight[c] = (IF pc[c] = "try" THEN {attempt[c]} ELSE {})
           /\ \A i \in DOMAIN events[c] :
                 events[c][i].ev = "invoke" =>
                    LET n == events[c][i].attempt - 1
                    IN  IF n = 0 THEN i = 1
                        ELSE /\ i >= 4
                             /\ events[c][i - 1].ev = "wait"
                             /\ events[c][i - 1].attempt = n
                             /\ events[c][i - 1].dur >= delay
                             /\ events[c][i - 3] = InvokeEvent(n)
                             /\ Failed(c, n)
                             /\ n \notin inflight[c]

C8_Witness ==
    \E c \in Calls :
        /\ max_attempts = 3
        /\ delay = 1
        /\ mode[c] = "async"
        /\ pc[c] = "try"
        /\ attempt[c] = 3
        /\ inflight[c] = {3}
        /\ events[c][6] = WaitEvent(2, 1)

\* C9: the wrapper has no failure of its own.  Whatever the configuration,
\* a call that is over has returned the result of an invocation of func it
\* made or raised the exception that an invocation of func it made raised.
C9_NoFailureOfItsOwn ==
    \A c \in Calls :
        Done(c) =>
            \E n \in 1..invocations[c] :
                \/ func[c][n] = "ok" /\ outcome[c] = Returned(Value(n))
                \/ func[c][n] # "ok" /\ outcome[c] = Propagated(Raised(func[c][n], n))

\* s is a prefix of t.
IsPrefix(s, t) == Len(s) <= Len(t) /\ \A i \in DOMAIN s : s[i] = t[i]

\* C10: execution-model symmetry.  A call of sync_wrapper and a call of
\* async_wrapper under the same configuration whose operations behave alike
\* go through the same events in the same order and end with the same
\* outcome; while it waits, the synchronous call holds the thread and the
\* asynchronous one does not.
C10_Symmetry ==
    \A c \in Calls : \A d \in Calls :
        (mode[c] = "sync" /\ mode[d] = "async" /\ func[c] = func[d])
        => /\ IsPrefix(events[c], events[d]) \/ IsPrefix(events[d], events[c])
           /\ (Done(c) /\ Done(d)) => /\ events[c] = events[d]
                                      /\ outcome[c] = outcome[d]
                                      /\ invocations[c] = invocations[d]
           /\ (Len(events[c]) = Len(events[d]) /\ pc[c] # "idle" /\ pc[d] # "idle")
                => /\ last_exception[c] = last_exception[d]
                   /\ attempt[c] = attempt[d]
           /\ pc[c] = "sleep" => thread = c
           /\ pc[d] = "sleep" => thread # d

C10_Witness ==
    \E c \in Calls : \E d \in Calls :
        /\ mode[c] = "sync" /\ mode[d] = "async"
        /\ max_attempts = 3
        /\ func[c] = func[d]
        /\ Done(c) /\ Done(d)
        /\ invocations[c] = 3 /\ invocations[d] = 3
        /\ Len(events[d]) >= 7
        /\ events[c] = events[d]
        /\ outcome[c] = outcome[d]

\* The attempt at which a call whose operation behaves as p ends: the first
\* one that returns or raises a failure not deriving from Exception, else
\* the last one permitted.
LastAttemptOf(p) ==
    LET ending == {n \in DOMAIN p : p[n] \notin ExceptionClasses}
    IN  IF ending = {} THEN Len(p)
        ELSE CHOOSE n \in ending : \A m \in ending : n <= m

\* What the caller of such a call observes.
OutcomeOf(p) ==
    LET n == LastAttemptOf(p)
    IN  IF p[n] = "ok" THEN Returned(Value(n)) ELSE Propagated(Raised(p[n], n))

\* The local state of call c.
Locals(c) == <<pc[c], attempt[c], last_exception[c], invocations[c],
               inflight[c], events[c], outcome[c]>>

\* C11: call independence.  With max_attempts >= 1, every call starts at
\* attempt 1 and counts its own invocations; how many it makes and what its
\* caller observes are determined by the outcomes of its own attempts alone,
\* with the full budget of max_attempts; the failure it keeps is one of its
\* own; and a step that changes the local state of one call leaves the
\* local state of every other call as it was.
C11_CallIndependence ==
    /\ [](\A c \in Calls :
            (max_attempts >= 1 /\ mode[c] # "idle")
            => /\ events[c] # <<>> => events[c][1] = InvokeEvent(1)
               /\ invocations[c] = attempt[c]
               /\ invocations[c] <= LastAttemptOf(func[c])
               /\ last_exception[c] \in
                    {None} \cup {Raised(func[c][n], n) : n \in 1..invocations[c]}
               /\ Done(c) => /\ invocations[c] = LastAttemptOf(func[c])
                             /\ outcome[c] = OutcomeOf(func[c]))
    /\ [][\A c \in Calls : \A d \in Calls :
            (c # d /\ Locals(c)' # Locals(c)) => Locals(d)' = Locals(d)]_vars

C11_Witness ==
    \E c \in Calls : \E d \in Calls :
        /\ mode[c] = "async" /\ mode[d] = "async"
        /\ func[c] # func[d]
        /\ pc[c] = "sleep" /\ attempt[c] = 1
        /\ pc[d] = "sleep" /\ attempt[d] = 2

\* The places of the log records of call c about attempt n.
RetryLogs(c, n) ==
    {i \in DOMAIN events[c] : events[c][i].ev = "Retrying" /\ events[c][i].attempt = n}
ExhaustedLogs(c, n) ==
    {i \in DOMAIN events[c] :
        events[c][i].ev = "No more retries" /\ events[c][i].attempt = n}

\* Every log record of call c is about an attempt that was made, has
\* completed and failed, and carries the failure of that attempt; retry
\* records are about attempts before the last permitted one, exhaustion
\* records about that one.
LogsAreAboutFailedAttempts(c) ==
    \A i \in DOMAIN events[c] :
        LET r == events[c][i]
        IN  r.ev \in {"Retrying", "No more retries"}
            => /\ Completed(c, r.attempt)
               /\ Failed(c, r.attempt)
               /\ r.exc = Raised(func[c][r.attempt], r.attempt)
               /\ r.ev = "Retrying" => r.attempt < max_attempts
               /\ r.ev = "No more retries" => r.attempt = max_attempts

\* C12 as stated: log events match attempts.  With max_attempts >= 1, a
\* call emits exactly one retry record for each completed failed attempt
\* n < max_attempts, exactly one exhaustion record if and only if attempt
\* max_attempts has failed, and no record for an attempt that succeeded.
C12_AsStated ==
    \A c \in Calls :
        (max_attempts >= 1 /\ mode[c] # "idle")
        => /\ LogsAreAboutFailedAttempts(c)
           /\ \A n \in Attempts :
                /\ Cardinality(RetryLogs(c, n)) =
                     (IF n < max_attempts /\ Completed(c, n) /\ Failed(c, n)
                      THEN 1 ELSE 0)
                /\ Cardinality(ExhaustedLogs(c, n)) =
                     (IF n = max_attempts /\ Completed(c, n) /\ Failed(c, n)
                      THEN 1 ELSE 0)

\* C12 amended: the same, with one retry record for each completed attempt
\* n < max_attempts that failed with a failure deriving from Exception, and
\* one exhaustion record if and only if attempt max_attempts has failed
\* with such a failure; so an operation that always raises such a failure
\* yields, with max_attempts = 3, two retry records and one exhaustion
\* record.
C12_LogsMatchAttempts ==
    \A c \in Calls :
        (max_attempts >= 1 /\ mode[c] # "idle")
        => /\ LogsAreAboutFailedAttempts(c)
           /\ \A n \in Attempts :
                /\ Cardinality(RetryLogs(c, n)) =
                     (IF n < max_attempts /\ Completed(c, n) /\ FailedAsException(c, n)
                      THEN 1 ELSE 0)
                /\ Cardinality(ExhaustedLogs(c, n)) =
                     (IF n = max_attempts /\ Completed(c, n) /\ FailedAsException(c, n)
                      THEN 1 ELSE 0)

C12_Witness ==
    \E c \in Calls :
        /\ max_attempts = 3
        /\ Done(c)
        /\ \A n \in Attempts : FailedAsException(c, n)
        /\ Cardinality(RetryLogs(c, 1) \cup RetryLogs(c, 2)) = 2
        /\ Cardinality(ExhaustedLogs(c, 3)) = 1
        /\ Len(events[c]) = 8

\* With max_attempts = 1, call c invokes func at most once, never waits and
\* emits no retry record; when it is over it has invoked func exactly once
\* and, if that invocation failed, its caller observes that failure.
SingleAttempt(c) ==
    /\ invocations[c] <= 1
    /\ pc[c] # "sleep"
    /\ \A i \in DOMAIN events[c] : events[c][i].ev \notin {"wait", "Retrying"}
    /\ Done(c) => /\ invocations[c] = 1
                  /\ Failed(c, 1) => outcome[c] = Propagated(Raised(func[c][1], 1))

\* C13 as stated: the single-attempt edge case.  With max_attempts = 1 the
\* operation is invoked exactly once; if it fails, the failure is
\* propagated with no wait and no retry record, and the one record emitted
\* is the exhaustion record.
C13_AsStated ==
    \A c \in Calls :
        (max_attempts = 1 /\ mode[c] # "idle")
        => /\ SingleAttempt(c)
           /\ (Done(c) /\ Failed(c, 1))
                => events[c] = <<InvokeEvent(1), ExhaustedLog(1, Raised(func[c][1], 1))>>

\* C13 amended: the same, the exhaustion record being emitted when the
\* failure derives from Exception and no record at all when it does not.
C13_SingleAttempt ==
    \A c \in Calls :
        (max_attempts = 1 /\ mode[c] # "idle")
        => /\ SingleAttempt(c)
           /\ (Done(c) /\ Failed(c, 1))
                => events[c] =
                     (IF FailedAsException(c, 1)
                      THEN <<InvokeEvent(1), ExhaustedLog(1, Raised(func[c][1], 1))>>
                      ELSE <<InvokeEvent(1)>>)

C13_Witness ==
    \E c \in Calls :
        /\ max_attempts = 1
        /\ mode[c] = "sync"
        /\ Done(c)
        /\ invocations[c] = 1
        /\ outcome[c] = Propagated(Raised("ValueError", 1))
        /\ events[c] = <<InvokeEvent(1), ExhaustedLog(1, Raised("ValueError", 1))>>

\* A step of call d.
StepOf(d) ==
    \/ SyncCall(d) \/ SyncFor(d) \/ SyncFuncDone(d) \/ SyncSleepDone(d)
    \/ AsyncCall(d) \/ AsyncFor(d) \/ AsyncFuncDone(d) \/ AsyncSleepDone(d)

\* Call d has something to do: it is not over and not in a wait that still
\* has time to run.
Ready(d) ==
    \/ pc[d] \in {"idle", "for", "try"}
    \/ pc[d] = "sleep" /\ elapsed[d] >= delay

\* C14: the async wait is cooperative, the sync wait blocks.  While a call
\* of async_wrapper waits out its delay it does not hold the thread, and
\* every other call that has something to do can take its step (start,
\* invoke, complete an invocation, end a wait, return or raise); while a
\* call of sync_wrapper waits it holds the thread and no other call can
\* take any step.
C14_CooperativeWait ==
    \A c \in Calls :
        pc[c] = "sleep"
        => IF mode[c] = "async"
           THEN /\ thread # c
                /\ \A d \in Calls \ {c} : Ready(d) => ENABLED StepOf(d)
           ELSE /\ thread = c
                /\ \A d \in Calls \ {c} : ~ENABLED StepOf(d)

C14_Witness ==
    \E c \in Calls : \E d \in Calls :
        /\ delay = 1
        /\ mode[c] = "async" /\ mode[d] = "async"
        /\ pc[c] = "sleep" /\ elapsed[c] = 1
        /\ pc[d] = "sleep" /\ elapsed[d] = 0 /\ attempt[d] = 2

\* C15: metadata preservation.  For every decorated operation, sync or
\* async, the function the decorator returns has the name and the docstring
\* of the original operation (and is of the same execution model).
C15_MetadataPreserved ==
    \A k \in Kinds :
        /\ wrapped[k].name = original[k].name
        /\ wrapped[k].doc = original[k].doc
        /\ wrapped[k].kind = original[k].kind

C15_Witness ==
    /\ original["sync"] = Function("my_special_function", "This is my docstring.", "sync")
    /\ original["async"] = Function("flaky_api_call", "None", "async")
    /\ wrapped["sync"].name = "my_special_function"
    /\ wrapped["sync"].doc = "This is my docstring."
    /\ wrapped["async"].name = "flaky_api_call"
    /\ \E c \in Calls : \E d \in Calls :
          mode[c] = "sync" /\ mode[d] = "async" /\ Done(c) /\ Done(d)

\* Control of call c is at the statement after the attempt loop: the loop
\* ended without returning.
AfterLoop(c) == mode[c] # "idle" /\ pc[c] = "for" /\ attempt[c] >= max_attempts

\* The failures of the attempts call c has made.
FailuresOf(c) == {Raised(func[c][n], n) : n \in {m \in 1..invocations[c] : Failed(c, m)}}

\* C16: "no failure yet" is unreachable at exhaustion.  For max_attempts >= 1,
\* whenever a call is at the statement after the loop, last_exception is
\* set and is the failure of an attempt of the call, and no call ends with
\* the assertion failing: what is raised is the failure of an attempt.
C16_NoFailureYetUnreachable ==
    max_attempts >= 1 =>
        \A c \in Calls :
            /\ AfterLoop(c) =>
                  /\ last_exception[c] # None
                  /\ last_exception[c] \in FailuresOf(c)
            /\ Done(c) /\ outcome[c].kind = "raise" =>
                  /\ outcome[c] # Propagated(AssertionError)
                  /\ outcome[c].what \in FailuresOf(c)

C16_Witness ==
    \E c \in Calls :
        /\ max_attempts = 3
        /\ mode[c] = "async"
        /\ AfterLoop(c)
        /\ invocations[c] = 3
        /\ last_exception[c] = Raised("ValueError", 3)

\* The waits call c has begun: those it has made and the one it is in.
WaitsBegun(c) == Cardinality(Waits(c)) + (IF pc[c] = "sleep" THEN 1 ELSE 0)

\* The attempt number of call c, once the loop has bound one, lies in
\* 1..max_attempts; its invocations are as many as its attempt number, at
\* most max_attempts, and its waits at most max_attempts - 1.
Bounded(c) ==
    /\ attempt[c] # 0 => attempt[c] \in Attempts
    /\ invocations[c] = attempt[c]
    /\ invocations[c] <= max_attempts
    /\ WaitsBegun(c) <= max_attempts - 1

\* C17: bounded and terminating.  With M = max_attempts >= 1, in every
\* reachable state of a call its attempt number lies in 1..M, its
\* invocations so far are as many as its attempt number and at most M, and
\* its waits at most M - 1; and when every invocation and every wait
\* terminates, every call that has begun eventually returns or raises,
\* whatever the pattern of successes and failures: a call that has begun
\* stays begun, and from some state on every call that has begun is over.
C17_BoundedAndTerminating ==
    /\ [](max_attempts >= 1 => \A c \in Calls : Bounded(c))
    /\ [][\A c \in Calls : mode[c] # "idle" => mode'[c] = mode[c]]_vars
    /\ <>[](\A c \in Calls : mode[c] # "idle" => Done(c))

C17_Witness ==
    \E c \in Calls :
        /\ max_attempts = 3
        /\ Done(c)
        /\ outcome[c] = Propagated(Raised("ValueError", 3))
        /\ invocations[c] = 3
        /\ attempt[c] = 3
        /\ WaitsBegun(c) = 2

\* C18: cancellation during the async wait ends the call.  A call of
\* async_wrapper whose task was cancelled while suspended in the
\* inter-attempt delay is over, with the cancellation propagated to the
\* caller and not the recorded last failure; its last event is the retry
\* log of the attempt it waited after (func was not invoked again), and it
\* has no exhaustion event.
C18_CancellationEndsTheCall ==
    \A c \in Calls :
        cancelled[c] =>
            /\ mode[c] = "async"
            /\ Done(c)
            /\ outcome[c] = Propagated(CancelledError)
            /\ last_exception[c] \in FailuresOf(c)
            /\ outcome[c] # Propagated(last_exception[c])
            /\ invocations[c] = attempt[c]
            /\ attempt[c] < max_attempts
            /\ inflight[c] = {}
            /\ events[c][Len(events[c])] = RetryLog(attempt[c], last_exception[c])
            /\ \A i \in DOMAIN events[c] : events[c][i].ev # "No more retries"

C18_Witness ==
    \E c \in Calls :
        /\ cancelled[c]
        /\ max_attempts = 3
        /\ func[c] = <<"ValueError", "ValueError", "ValueError">>
        /\ attempt[c] = 2
        /\ last_exception[c] = Raised("ValueError", 2)
        /\ outcome[c] = Propagated(CancelledError)

\* C19: unvalidated configuration max_attempts <= 0.  A call of the wrapped
\* function, sync or async, never invokes func, never waits and emits no log
\* record; it returns no value, and when it is over it has raised the
\* AssertionError of `assert last_exception is not None`.
C19_NonPositiveMaxAttempts ==
    max_attempts <= 0 =>
        \A c \in Calls :
            mode[c] # "idle" =>
                /\ invocations[c] = 0
                /\ attempt[c] = 0
                /\ inflight[c] = {}
                /\ events[c] = <<>>
                /\ pc[c] \in {"for", "done"}
                /\ last_exception[c] = None
                /\ outcome[c].kind # "return"
                /\ Done(c) <=> outcome[c] = Propagated(AssertionError)

C19_Witness ==
    \E c \in Calls : \E d \in Calls :
        /\ max_attempts <= 0
        /\ mode[c] = "sync" /\ mode[d] = "async"
        /\ Done(c) /\ Done(d)
        /\ outcome[c] = Propagated(AssertionError)
        /\ outcome[d] = Propagated(AssertionError)
        /\ invocations[c] = 0 /\ invocations[d] = 0
        /\ events[c] = <<>> /\ events[d] = <<>>

====
